---- MODULE Spec2Model ----
(***************************************************************************)
(* State-machine model of ctgov-data.                                      *)
(*                                                                         *)
(* Spec: the two paginated fetch loops,                                    *)
(*   - fetch_oncology.main  (the CSV export),                              *)
(*   - ctgov.cmd_search     (the search command, text and JSON modes),     *)
(* run against a registry that serves a fixed sequence of result pages and *)
(* may fail any request.                                                   *)
(* SpecFlatten: fetch_oncology.extract_row on records with keys deleted.   *)
(* SpecClassify: analyze.classify_sponsor over names, classes and          *)
(* iteration orders of the curated sets.                                   *)
(* SpecAnalysis: analyze.main, the load loop and the Q3 aggregation.       *)
(*                                                                         *)
(* Time is counted in tenths of a second and advances only in time.sleep:  *)
(* the clock is a lower bound of the real elapsed time.                    *)
(* A continuation token is a natural number: the registry's token i leads  *)
(* to page i + 1; NoToken (0) stands for an absent nextPageToken / None.   *)
(* A study is the pair <<page, index>> under which the registry serves it. *)
(***************************************************************************)
EXTENDS Integers, Sequences, FiniteSets, TLC

VARIABLES
    prog,           \* which program runs: "export", "search", "extract_row",
                    \* "classify_sponsor" or "analyze"
    pc,             \* position in the program
    args,           \* ctgov: the parsed command line (argparse namespace)
    params,         \* the request parameter dict
    data,           \* the last decoded response
    pages,          \* registry: the result pages, fixed at the first answer
    withCount,      \* registry: whether answers carry totalCount
    clock,          \* tenths of a second slept so far
    requests,       \* history: every request issued, in order
    page,           \* fetch_oncology.main: page
    fetched,        \* fetch_oncology.main: fetched
    total,          \* total (both programs)
    page_token,     \* page_token (both programs)
    pages_fetched,  \* ctgov.cmd_search: pages_fetched
    total_shown,    \* ctgov.cmd_search: total_shown
    all_studies,    \* ctgov.cmd_search --json: all_studies
    csv_rows,       \* fetch_oncology: the data rows written to OUTPUT_FILE
    stdout,         \* what was printed to standard output
    stderr,         \* what was printed to standard error
    exit_code,      \* the process's exit status once pc is terminal
    input,          \* the argument of the function or loop under study
    result          \* what it returned or accumulated

vars == <<prog, pc, args, params, data, pages, withCount, clock, requests,
          page, fetched, total, page_token, pages_fetched, total_shown,
          all_studies, csv_rows, stdout, stderr, exit_code, input, result>>

\* The state of the fetch loops, and the state of the functions studied alone.
fetchVars == <<args, params, data, pages, withCount, clock, requests, page,
               fetched, total, page_token, pages_fetched, total_shown,
               all_studies, csv_rows, stdout, stderr, exit_code>>
pureVars == <<input, result>>

----------------------------------------------------------------------------
(* Bounds of the model *)

MaxPages == 3       \* the registry holds 1..MaxPages result pages
MaxPerPage == 2     \* each page holds 0..MaxPerPage studies
MaxFilterLen == 2   \* --status / --phase each hold at most this many values

(* Program constants, in tenths of a second *)

RATE_DELAY == 12    \* time.sleep(1.2)
RETRY_DELAY == 100  \* time.sleep(10)

NoToken == 0        \* data.get("nextPageToken") is None

----------------------------------------------------------------------------
(* Python helpers *)

\* bool(x) of an optional token: None and the empty value are falsy.
Truthy(tok) == tok # NoToken

\* Variant of Put: a key the dict already holds keeps its value.
PutIfAbsent(d, k, v) ==
    [x \in DOMAIN d \cup {k} |-> IF x \in DOMAIN d THEN d[x] ELSE v]

\* d[k] = v on a dict
Put(d, k, v) == [x \in DOMAIN d \cup {k} |-> IF x = k THEN v ELSE d[x]]

\* d.pop(k, None) on a dict
Pop(d, k) == [x \in DOMAIN d \ {k} |-> d[x]]

RECURSIVE Concat(_)
\* the concatenation of a sequence of sequences
Concat(ss) == IF ss = <<>> THEN <<>> ELSE Head(ss) \o Concat(Tail(ss))

----------------------------------------------------------------------------
(* The registry (the environment of both programs) *)

\* A page of n studies; page i of N carries token i unless it is the last.
Page(i, n, N) ==
    [studies |-> [j \in 1..n |-> <<i, j>>],
     nextPageToken |-> IF i < N THEN i ELSE NoToken]

\* Every result the registry may hold: 1..MaxPages pages of 0..MaxPerPage studies.
PagePlans ==
    UNION { { [i \in 1..N |-> Page(i, sz[i], N)] : sz \in [1..N -> 0..MaxPerPage] }
            : N \in 1..MaxPages }

\* The number of studies of the whole result.
TotalCount(ps) == Len(Concat([i \in 1..Len(ps) |-> ps[i].studies]))

\* The decoded JSON answer to a request carrying parameters p.
Response(ps, wc, p) ==
    LET tok == IF "pageToken" \in DOMAIN p THEN p["pageToken"] ELSE NoToken
        pg  == ps[tok + 1]
    IN  [studies |-> pg.studies,
         nextPageToken |-> pg.nextPageToken,
         hasTotalCount |-> wc,
         totalCount |-> IF wc THEN TotalCount(ps) ELSE 0]

\* What a request can end in: an answer, an HTTP error status (with or
\* without a response body), or a network-level failure.
Outcomes == {"ok", "http_body", "http_nobody", "url"}
Failures == Outcomes \ {"ok"}

\* The registry's result is fixed when it first answers.
Reveal ==
    IF pages = <<>>
    THEN /\ pages' \in PagePlans
         /\ withCount' \in BOOLEAN
    ELSE UNCHANGED <<pages, withCount>>

\* One entry of the request history.
Request(p, outcome) ==
    [token |-> IF "pageToken" \in DOMAIN p THEN p["pageToken"] ELSE NoToken,
     params |-> p, at |-> clock, outcome |-> outcome]

NoData == [studies |-> <<>>, nextPageToken |-> NoToken,
           hasTotalCount |-> FALSE, totalCount |-> 0]

\* data.get("totalCount", 0)
GetTotalCount(d) == IF d.hasTotalCount THEN d.totalCount ELSE 0

Line(kind, val) == [kind |-> kind, val |-> val]

\* str(e) of the exception a failed request raises: urllib's HTTPError reads
\* "HTTP Error <code>: <reason>", URLError "<urlopen error <reason>>"; neither
\* holds the response body.
ExcText(outcome) ==
    [status |-> outcome \in {"http_body", "http_nobody"}, reason |-> TRUE,
     body |-> FALSE]

Terminal == {"done", "crashed", "exited"}

----------------------------------------------------------------------------
(* fetch_oncology.main *)

ExportParams ==
    [k \in {"format", "pageSize", "countTotal", "query.cond", "filter.advanced"} |->
        CASE k = "format" -> "json"
          [] k = "pageSize" -> 1000
          [] k = "countTotal" -> "true"
          [] k = "query.cond" -> "cancer OR oncology"
          [] k = "filter.advanced" -> "AREA[StartDate]RANGE[2022-01-01, 2025-12-31]"]

\* Lines 102-120: build params, the first request (no handler around it),
\* then open the output file and write the header.
ExportDiscovery ==
    /\ prog = "export" /\ pc = "start"
    /\ params' = ExportParams
    /\ \E outcome \in Outcomes :
        /\ requests' = Append(requests, Request(ExportParams, outcome))
        /\ IF outcome = "ok"
           THEN /\ Reveal
                /\ data' = Response(pages', withCount', ExportParams)
                /\ total' = GetTotalCount(data')
                /\ stdout' = Append(stdout, Line("total", total'))
                /\ page' = 1
                /\ fetched' = 0
                /\ pc' = "write"
                /\ UNCHANGED <<stderr, exit_code>>
           ELSE \* the exception leaves main: traceback, exit status 1
                /\ stderr' = Append(stderr, Line("traceback", ExcText(outcome)))
                /\ exit_code' = 1
                /\ pc' = "crashed"
                /\ UNCHANGED <<data, total, stdout, page, fetched, pages, withCount>>
    /\ UNCHANGED <<prog, args, clock, page_token, pages_fetched, total_shown,
                   all_studies, csv_rows>>

\* Variant of ExportWritePage: the token is tested before the rows are written,
\* so the rows of the tokenless page are dropped.
ExportWritePageBreakFirst ==
    /\ prog = "export" /\ pc = "write"
    /\ page_token' = data.nextPageToken
    /\ IF ~Truthy(page_token')
       THEN /\ pc' = "epilogue"
            /\ UNCHANGED <<page, params, csv_rows, fetched, stdout>>
       ELSE /\ csv_rows' = csv_rows \o data.studies
            /\ fetched' = fetched + Len(data.studies)
            /\ stdout' = Append(stdout, Line("page", <<page, Len(data.studies), fetched', total>>))
            /\ page' = page + 1
            /\ params' = Pop(Put(params, "pageToken", page_token'), "countTotal")
            /\ pc' = "sleep"
    /\ UNCHANGED <<prog, args, data, pages, withCount, clock, requests, total,
                   pages_fetched, total_shown, all_studies, stderr, exit_code>>

\* Lines 123-137: write the page's rows, then leave the loop on a falsy
\* token or prepare the next request.
ExportWritePage ==
    /\ prog = "export" /\ pc = "write"
    /\ csv_rows' = csv_rows \o data.studies
    /\ fetched' = fetched + Len(data.studies)
    /\ stdout' = Append(stdout, Line("page", <<page, Len(data.studies), fetched', total>>))
    /\ page_token' = data.nextPageToken
    /\ IF ~Truthy(page_token')
       THEN /\ pc' = "epilogue"
            /\ UNCHANGED <<page, params>>
       ELSE /\ page' = page + 1
            /\ params' = Pop(Put(params, "pageToken", page_token'), "countTotal")
            /\ pc' = "sleep"
    /\ UNCHANGED <<prog, args, data, pages, withCount, clock, requests, total,
                   pages_fetched, total_shown, all_studies, stderr, exit_code>>

\* Line 139: time.sleep(1.2)
ExportSleep ==
    /\ prog = "export" /\ pc = "sleep"
    /\ clock' = clock + RATE_DELAY
    /\ pc' = "request"
    /\ UNCHANGED <<prog, args, params, data, pages, withCount, requests, page,
                   fetched, total, page_token, pages_fetched, total_shown,
                   all_studies, csv_rows, stdout, stderr, exit_code>>

\* Lines 141-145: the page request; a failure is announced and leads to the retry.
ExportRequest ==
    /\ prog = "export" /\ pc = "request"
    /\ \E outcome \in Outcomes :
        /\ requests' = Append(requests, Request(params, outcome))
        /\ IF outcome = "ok"
           THEN /\ data' = Response(pages, withCount, params)
                /\ pc' = "write"
                /\ UNCHANGED stderr
           ELSE /\ stderr' = stderr \o <<Line("error", <<page, ExcText(outcome)>>),
                                          Line("retrying", RETRY_DELAY)>>
                /\ pc' = "retry_sleep"
                /\ UNCHANGED data
    /\ UNCHANGED <<prog, args, params, pages, withCount, clock, page, fetched,
                   total, page_token, pages_fetched, total_shown, all_studies,
                   csv_rows, stdout, exit_code>>

\* Variant of ExportRetrySleep: the retry waits only the inter-page delay.
ExportRetrySleepShort ==
    /\ prog = "export" /\ pc = "retry_sleep"
    /\ clock' = clock + RATE_DELAY
    /\ pc' = "retry"
    /\ UNCHANGED <<prog, args, params, data, pages, withCount, requests, page,
                   fetched, total, page_token, pages_fetched, total_shown,
                   all_studies, csv_rows, stdout, stderr, exit_code>>

\* Line 146: time.sleep(10)
ExportRetrySleep ==
    /\ prog = "export" /\ pc = "retry_sleep"
    /\ clock' = clock + RETRY_DELAY
    /\ pc' = "retry"
    /\ UNCHANGED <<prog, args, params, data, pages, withCount, requests, page,
                   fetched, total, page_token, pages_fetched, total_shown,
                   all_studies, csv_rows, stdout, stderr, exit_code>>

\* Variant of ExportRetry: the answer to a successful retry is not stored.
ExportRetryStale ==
    /\ prog = "export" /\ pc = "retry"
    /\ \E outcome \in Outcomes :
        /\ requests' = Append(requests, Request(params, outcome))
        /\ IF outcome = "ok"
           THEN /\ pc' = "write"
                /\ UNCHANGED stderr
           ELSE /\ stderr' = Append(stderr, Line("failed_again", ExcText(outcome)))
                /\ pc' = "epilogue"
    /\ UNCHANGED <<prog, args, params, data, pages, withCount, clock, page, fetched,
                   total, page_token, pages_fetched, total_shown, all_studies,
                   csv_rows, stdout, exit_code>>

\* Variant of ExportRetry: the second failure does not leave the loop.
ExportRetryNoBreak ==
    /\ prog = "export" /\ pc = "retry"
    /\ \E outcome \in Outcomes :
        /\ requests' = Append(requests, Request(params, outcome))
        /\ IF outcome = "ok"
           THEN /\ data' = Response(pages, withCount, params)
                /\ pc' = "write"
                /\ UNCHANGED stderr
           ELSE /\ stderr' = Append(stderr, Line("failed_again", ExcText(outcome)))
                /\ pc' = "write"
                /\ UNCHANGED data
    /\ UNCHANGED <<prog, args, params, pages, withCount, clock, page, fetched,
                   total, page_token, pages_fetched, total_shown, all_studies,
                   csv_rows, stdout, exit_code>>

\* Lines 147-151: the one retry; a second failure is announced and ends the loop.
ExportRetry ==
    /\ prog = "export" /\ pc = "retry"
    /\ \E outcome \in Outcomes :
        /\ requests' = Append(requests, Request(params, outcome))
        /\ IF outcome = "ok"
           THEN /\ data' = Response(pages, withCount, params)
                /\ pc' = "write"
                /\ UNCHANGED stderr
           ELSE /\ stderr' = Append(stderr, Line("failed_again", ExcText(outcome)))
                /\ pc' = "epilogue"
                /\ UNCHANGED data
    /\ UNCHANGED <<prog, args, params, pages, withCount, clock, page, fetched,
                   total, page_token, pages_fetched, total_shown, all_studies,
                   csv_rows, stdout, exit_code>>

\* Line 153 and the normal return of main: the file is closed, exit status 0.
ExportDone ==
    /\ prog = "export" /\ pc = "epilogue"
    /\ stdout' = Append(stdout, Line("done", fetched))
    /\ exit_code' = 0
    /\ pc' = "done"
    /\ UNCHANGED <<prog, args, params, data, pages, withCount, clock, requests,
                   page, fetched, total, page_token, pages_fetched, total_shown,
                   all_studies, csv_rows, stderr>>

----------------------------------------------------------------------------
(* ctgov.cmd_search *)

VALID_STATUSES ==
    <<"RECRUITING", "NOT_YET_RECRUITING", "ENROLLING_BY_INVITATION",
      "ACTIVE_NOT_RECRUITING", "SUSPENDED", "TERMINATED", "COMPLETED",
      "WITHDRAWN">>

VALID_PHASES == <<"EARLY_PHASE1", "PHASE1", "PHASE2", "PHASE3", "PHASE4", "NA">>

\* x in lst, for a Python list
InList(x, lst) == \E i \in 1..Len(lst) : lst[i] = x

\* The comma-separated values a caller may write, as given on the command
\* line (before any normalisation).
RawStatuses == {" recruiting", "BOGUS"}
RawPhases == {"phase2", "PHASE5"}

\* s.strip().upper(), on the values above (every other string of the model
\* is already trimmed and upper-case)
StripUpper(s) ==
    CASE s = " recruiting" -> "RECRUITING"
      [] s = "phase2" -> "PHASE2"
      [] OTHER -> s

\* [s.strip().upper() for s in arg.split(",")]; the argument is held as the
\* sequence of its comma-separated parts, the empty sequence standing for an
\* option that was not given (None) or given empty: both are falsy.
Normalised(parts) == [i \in 1..Len(parts) |-> StripUpper(parts[i])]

\* Variant of FirstInvalid: only the first value of the list is validated.
FirstInvalidHeadOnly(vals, valid) ==
    IF vals = <<>> \/ InList(vals[1], valid) THEN 0 ELSE 1

\* The first value of a list that the accepted list does not hold, as the
\* for loop meets it; 0 when every value is accepted.
FirstInvalid(vals, valid) ==
    IF \A i \in 1..Len(vals) : InList(vals[i], valid)
    THEN 0
    ELSE CHOOSE i \in 1..Len(vals) :
            /\ ~InList(vals[i], valid)
            /\ \A j \in 1..(i - 1) : InList(vals[j], valid)

ListsUpTo(S, n) == UNION { [1..k -> S] : k \in 0..n }

\* The command lines of the model. "" stands for an option not given.
ArgSpace ==
    [condition : {"lung cancer"}, intervention : {""}, term : {""},
     sponsor : {""}, location : {""}, sort : {""},
     status : ListsUpTo(RawStatuses, MaxFilterLen),
     phase : ListsUpTo(RawPhases, MaxFilterLen),
     page_size : {10},
     max_pages : 0..MaxPages,
     json : BOOLEAN]

NoArgs == [json |-> FALSE]

\* Lines 104-118 and 135-136: the parameters that need no validation.
BaseParams(a) ==
    LET opt == {<<"query.cond", a.condition>>, <<"query.intr", a.intervention>>,
                <<"query.term", a.term>>, <<"query.spons", a.sponsor>>,
                <<"query.locn", a.location>>, <<"sort", a.sort>>}
        given == {kv \in opt : kv[2] # ""}
        keys == {"format", "pageSize"} \cup {kv[1] : kv \in given}
    IN  [k \in keys |->
            IF k = "format" THEN "json"
            ELSE IF k = "pageSize" THEN a.page_size
            ELSE (CHOOSE kv \in given : kv[1] = k)[2]]

\* Lines 104-141 / 155-157: build params, validate --status then --phase,
\* and initialise the loop. A joined list ",".join(xs) is held as xs.
SearchValidate ==
    /\ prog = "search" /\ pc = "start"
    /\ LET statuses == Normalised(args.status)
           phases == Normalised(args.phase)
           badS == FirstInvalid(statuses, VALID_STATUSES)
           badP == FirstInvalid(phases, VALID_PHASES)
           p1 == BaseParams(args)
           p2 == IF args.status # <<>> THEN Put(p1, "filter.overallStatus", statuses) ELSE p1
           p3 == IF args.phase # <<>> THEN Put(p2, "filter.phase", phases) ELSE p2
       IN  IF args.status # <<>> /\ badS # 0
           THEN /\ stderr' = stderr \o <<Line("invalid_status", statuses[badS]),
                                          Line("valid_statuses", VALID_STATUSES)>>
                /\ exit_code' = 1
                /\ pc' = "exited"
                /\ UNCHANGED params
           ELSE IF args.phase # <<>> /\ badP # 0
           THEN /\ stderr' = stderr \o <<Line("invalid_phase", phases[badP]),
                                          Line("valid_phases", VALID_PHASES)>>
                /\ exit_code' = 1
                /\ pc' = "exited"
                /\ params' = p2
           ELSE /\ params' = p3
                /\ pc' = "request"
                /\ UNCHANGED <<stderr, exit_code>>
    /\ page_token' = NoToken
    /\ pages_fetched' = 0
    /\ total_shown' = 0
    /\ all_studies' = <<>>
    /\ UNCHANGED <<prog, args, data, pages, withCount, clock, requests, page,
                   fetched, total, csv_rows, stdout>>

\* ctgov.api_request, lines 47-55: what a failed request prints before
\* sys.exit(1).
ApiRequestErrors(outcome) ==
    CASE outcome = "http_body" ->
            <<Line("http", [status |-> TRUE, reason |-> TRUE]), Line("body", TRUE)>>
      [] outcome = "http_nobody" ->
            <<Line("http", [status |-> TRUE, reason |-> TRUE])>>
      [] outcome = "url" ->
            <<Line("connection", [status |-> FALSE, reason |-> TRUE])>>

\* Lines 143-145 / 160-162 with api_request (34-55): add the token to the
\* parameters and request the page; any failure ends the process.
SearchRequest ==
    /\ prog = "search" /\ pc = "request"
    /\ params' = IF Truthy(page_token) THEN Put(params, "pageToken", page_token)
                 ELSE params
    /\ \E outcome \in Outcomes :
        /\ requests' = Append(requests, Request(params', outcome))
        /\ IF outcome = "ok"
           THEN /\ Reveal
                /\ data' = Response(pages', withCount', params')
                /\ pc' = "page"
                /\ UNCHANGED <<stderr, exit_code>>
           ELSE /\ stderr' = stderr \o ApiRequestErrors(outcome)
                /\ exit_code' = 1
                /\ pc' = "exited"
                /\ UNCHANGED <<data, pages, withCount>>
    /\ UNCHANGED <<prog, args, clock, page, fetched, total, page_token,
                   pages_fetched, total_shown, all_studies, csv_rows, stdout>>

\* `args.max_pages and pages_fetched >= args.max_pages`: 0 is falsy.
CapReached(max_pages, n) == max_pages # 0 /\ n >= max_pages

\* --json, lines 146-150
SearchPageJson ==
    /\ prog = "search" /\ pc = "page" /\ args.json
    /\ all_studies' = all_studies \o data.studies
    /\ pages_fetched' = pages_fetched + 1
    /\ page_token' = data.nextPageToken
    /\ pc' = IF ~Truthy(page_token') \/ CapReached(args.max_pages, pages_fetched')
             THEN "finish" ELSE "sleep"
    /\ UNCHANGED <<prog, args, params, data, pages, withCount, clock, requests,
                   page, fetched, total, total_shown, csv_rows, stdout, stderr,
                   exit_code>>

\* The numbered summaries of one page, lines 169-173.
Summaries(shown, studies) ==
    [j \in 1..Len(studies) |-> Line("study", <<shown + j, studies[j]>>)]

\* text mode, lines 163-184
SearchPageText ==
    /\ prog = "search" /\ pc = "page" /\ ~args.json
    /\ total' = GetTotalCount(data)
    /\ total_shown' = total_shown + Len(data.studies)
    /\ pages_fetched' = pages_fetched + 1
    /\ page_token' = data.nextPageToken
    /\ LET found == IF pages_fetched = 0 THEN <<Line("found", total')>> ELSE <<>>
           shown == Summaries(total_shown, data.studies)
           remaining == total' - total_shown'
       IN  IF ~Truthy(page_token')
           THEN /\ stdout' = stdout \o found \o shown
                /\ pc' = "finish"
           ELSE IF CapReached(args.max_pages, pages_fetched')
           THEN /\ stdout' = stdout \o found \o shown \o
                        (IF remaining > 0 THEN <<Line("more", remaining)>> ELSE <<>>)
                /\ pc' = "finish"
           ELSE /\ stdout' = stdout \o found \o shown
                /\ pc' = "sleep"
    /\ UNCHANGED <<prog, args, params, data, pages, withCount, clock, requests,
                   page, fetched, all_studies, csv_rows, stderr, exit_code>>

\* Variant of SearchSleep: the next page is requested without waiting.
SearchSleepNone ==
    /\ prog = "search" /\ pc = "sleep"
    /\ pc' = "request"
    /\ UNCHANGED <<prog, args, params, data, pages, withCount, clock, requests,
                   page, fetched, total, page_token, pages_fetched, total_shown,
                   all_studies, csv_rows, stdout, stderr, exit_code>>

\* Lines 151 / 186: time.sleep(1.2)
SearchSleep ==
    /\ prog = "search" /\ pc = "sleep"
    /\ clock' = clock + RATE_DELAY
    /\ pc' = "request"
    /\ UNCHANGED <<prog, args, params, data, pages, withCount, requests, page,
                   fetched, total, page_token, pages_fetched, total_shown,
                   all_studies, csv_rows, stdout, stderr, exit_code>>

\* --json, lines 152-153: print the accumulated studies and return.
SearchFinishJson ==
    /\ prog = "search" /\ pc = "finish" /\ args.json
    /\ stdout' = Append(stdout, Line("json", all_studies))
    /\ exit_code' = 0
    /\ pc' = "done"
    /\ UNCHANGED <<prog, args, params, data, pages, withCount, clock, requests,
                   page, fetched, total, page_token, pages_fetched, total_shown,
                   all_studies, csv_rows, stderr>>

\* text mode, lines 188-189
SearchFinishText ==
    /\ prog = "search" /\ pc = "finish" /\ ~args.json
    /\ stdout' = IF total_shown = 0 THEN Append(stdout, Line("none", 0)) ELSE stdout
    /\ exit_code' = 0
    /\ pc' = "done"
    /\ UNCHANGED <<prog, args, params, data, pages, withCount, clock, requests,
                   page, fetched, total, page_token, pages_fetched, total_shown,
                   all_studies, csv_rows, stderr>>

----------------------------------------------------------------------------
(* The specification *)

Init ==
    /\ \/ prog = "export" /\ args = NoArgs
       \/ prog = "search" /\ args \in ArgSpace
    /\ pc = "start"
    /\ params = <<>>
    /\ data = NoData
    /\ pages = <<>>
    /\ withCount = FALSE
    /\ clock = 0
    /\ requests = <<>>
    /\ page = 0
    /\ fetched = 0
    /\ total = 0
    /\ page_token = NoToken
    /\ pages_fetched = 0
    /\ total_shown = 0
    /\ all_studies = <<>>
    /\ csv_rows = <<>>
    /\ stdout = <<>>
    /\ stderr = <<>>
    /\ exit_code = 0
    /\ input = <<>>
    /\ result = <<>>

Next ==
    \/ ExportDiscovery /\ UNCHANGED pureVars
    \/ ExportWritePage /\ UNCHANGED pureVars
    \/ ExportSleep /\ UNCHANGED pureVars
    \/ ExportRequest /\ UNCHANGED pureVars
    \/ ExportRetrySleep /\ UNCHANGED pureVars
    \/ ExportRetry /\ UNCHANGED pureVars
    \/ ExportDone /\ UNCHANGED pureVars
    \/ SearchValidate /\ UNCHANGED pureVars
    \/ SearchRequest /\ UNCHANGED pureVars
    \/ SearchPageJson /\ UNCHANGED pureVars
    \/ SearchPageText /\ UNCHANGED pureVars
    \/ SearchSleep /\ UNCHANGED pureVars
    \/ SearchFinishJson /\ UNCHANGED pureVars
    \/ SearchFinishText /\ UNCHANGED pureVars

Spec == Init /\ [][Next]_vars

----------------------------------------------------------------------------
(* Vocabulary of the properties *)

Failed(r) == r.outcome # "ok"

NumRequests == Len(requests)

AllOk == \A i \in 1..NumRequests : ~Failed(requests[i])

\* The rows of pages 1..n of the registry's result, in page order.
ExpectedRows(n) == Concat([i \in 1..n |-> pages[i].studies])

\* The last two requests were for the same page and both failed.
DoubleFailure ==
    /\ NumRequests >= 2
    /\ Failed(requests[NumRequests])
    /\ Failed(requests[NumRequests - 1])
    /\ requests[NumRequests].token = requests[NumRequests - 1].token

\* Request i is the first attempt for its page.
FirstAttempt(i) == i = 1 \/ requests[i - 1].token # requests[i].token

\* The time of the last request (0 before any).
LastRequestAt == IF NumRequests = 0 THEN 0 ELSE requests[NumRequests].at

----------------------------------------------------------------------------
(* Properties of the export loop *)

\* C1: in a run of the export without failed requests, request i is for page
\* i (it carries the token of page i - 1), the rows written are exactly those
\* of the pages received and processed so far, in page order and each once;
\* the run goes on until it is done, and when it is done every page up to the
\* tokenless one has been requested once, written once, and nothing after it.
C1_PaginationTermination ==
    (prog = "export" /\ AllOk) =>
        /\ \A i \in 1..NumRequests : requests[i].token = i - 1
        /\ NumRequests <= Len(pages)
        /\ csv_rows = ExpectedRows(IF pc = "write" THEN NumRequests - 1
                                   ELSE NumRequests)
        /\ pc # "done" => ENABLED Next
        /\ pc = "done" =>
            /\ NumRequests = Len(pages)
            /\ pages[NumRequests].nextPageToken = NoToken
            /\ csv_rows = ExpectedRows(Len(pages))

C1_Witness ==
    /\ prog = "export" /\ pc = "done" /\ AllOk
    /\ Len(pages) = 3
    /\ Len(csv_rows) >= 4

\* C2: in the export, a failed first attempt for a page after the first is
\* followed by one retry of the same page, no earlier than RETRY_DELAY after
\* it (and until that retry is issued the program is on its way to it); no
\* page is requested three times; a request that succeeds is the last one
\* for its page.
C2_SingleRetryAfterDelay ==
    prog = "export" =>
        /\ \A i \in 2..NumRequests :
            (Failed(requests[i]) /\ FirstAttempt(i)) =>
                IF i < NumRequests
                THEN /\ requests[i + 1].token = requests[i].token
                     /\ requests[i + 1].at >= requests[i].at + RETRY_DELAY
                ELSE pc \in {"retry_sleep", "retry"}
        /\ \A t \in 0..MaxPages :
            Cardinality({i \in 1..NumRequests : requests[i].token = t}) <= 2
        /\ \A i \in 1..NumRequests : \A j \in 1..NumRequests :
            (~Failed(requests[i]) /\ j > i) => requests[j].token # requests[i].token

C2_Witness ==
    /\ prog = "export" /\ pc = "done"
    /\ \E i \in 2..(NumRequests - 1) :
        /\ Failed(requests[i]) /\ FirstAttempt(i)
        /\ ~Failed(requests[i + 1])
        /\ requests[i + 1].token = requests[i].token
    /\ \E i \in 2..NumRequests : ~Failed(requests[i]) /\ FirstAttempt(i)

\* C3: an export run that ends without a page having failed twice in a row
\* (any number of pages may each have failed once) has written exactly the
\* rows the failure-free run over the same pages writes: those of every page,
\* in page order, each once.
C3_RetryTransparent ==
    (prog = "export" /\ pc = "done" /\ ~DoubleFailure) =>
        csv_rows = ExpectedRows(Len(pages))

C3_Witness ==
    /\ prog = "export" /\ pc = "done" /\ ~DoubleFailure
    /\ Cardinality({i \in 1..NumRequests : Failed(requests[i])}) = 2
    /\ Len(csv_rows) >= 4

\* C4: when a page request of the export and its retry have both failed, the
\* loop has been left: the two failed attempts are the last requests, the
\* rows written are exactly those of the pages before the failed one, each
\* once, the second failure has been printed to standard error, and the
\* program ends normally (the count of rows written is printed, exit 0)
\* instead of crashing.
C4_AbortKeepsRows ==
    (prog = "export" /\ DoubleFailure) =>
        /\ pc \in {"epilogue", "done"}
        /\ csv_rows = ExpectedRows(requests[NumRequests].token)
        /\ fetched = Len(csv_rows)
        /\ stderr # <<>> /\ stderr[Len(stderr)].kind = "failed_again"
        /\ pc = "done" =>
            /\ exit_code = 0
            /\ stdout[Len(stdout)] = Line("done", Len(csv_rows))

C4_Witness ==
    /\ prog = "export" /\ pc = "done" /\ DoubleFailure
    /\ requests[NumRequests].token = 2
    /\ Len(csv_rows) >= 3

\* C5: when the first request of the export fails, no other request is made,
\* the process ends with a non-zero exit status, and standard error holds the
\* reason of the failure, the HTTP status if the registry answered with one,
\* and the response body if the answer had one.
C5_DiscoveryFailureReported ==
    (prog = "export" /\ NumRequests >= 1 /\ Failed(requests[1])) =>
        /\ NumRequests = 1
        /\ pc = "crashed"
        /\ exit_code # 0
        /\ \E i \in 1..Len(stderr) :
            /\ stderr[i].val.reason
            /\ requests[1].outcome \in {"http_body", "http_nobody"} => stderr[i].val.status
        /\ requests[1].outcome = "http_body" =>
            \E i \in 1..Len(stderr) : stderr[i].val.body

----------------------------------------------------------------------------
(* Properties of the search command *)

RECURSIVE StudiesOf(_)
\* The studies a sequence of output lines delivers, in order.
StudiesOf(lines) ==
    IF lines = <<>> THEN <<>>
    ELSE LET l == Head(lines)
         IN  (CASE l.kind = "study" -> <<l.val[2]>>
                [] l.kind = "json" -> l.val
                [] OTHER -> <<>>) \o StudiesOf(Tail(lines))

Delivered == StudiesOf(stdout)

\* C6: a search with --max-pages k >= 1 over a result of more than k pages,
\* with studies left beyond page k (and a registry that sends totalCount
\* with every answer), ends after exactly k requests, having output exactly
\* the studies of pages 1..k and a non-zero count of the remaining studies.
C6_TruncationReported ==
    (/\ prog = "search" /\ pc = "done"
     /\ args.max_pages >= 1 /\ Len(pages) > args.max_pages
     /\ withCount
     /\ TotalCount(pages) > Len(ExpectedRows(args.max_pages))) =>
        /\ NumRequests = args.max_pages
        /\ Delivered = ExpectedRows(args.max_pages)
        /\ \E i \in 1..Len(stdout) : stdout[i].kind = "more" /\ stdout[i].val > 0

\* C7: a search never ends on the failed first attempt for a page after the
\* first: that request is followed by a retry of the same page.
C7_SearchRetriesOnce ==
    prog = "search" =>
        \A i \in 2..NumRequests :
            (Failed(requests[i]) /\ FirstAttempt(i)) =>
                \/ i < NumRequests /\ requests[i + 1].token = requests[i].token
                \/ pc \notin Terminal

\* C8: when a search ends because the request for page p > 1 failed, the
\* studies of pages 1..p-1 have all been output.
C8_SearchKeepsDelivered ==
    (prog = "search" /\ pc \in Terminal /\ NumRequests >= 2
        /\ Failed(requests[NumRequests])) =>
        Delivered = ExpectedRows(requests[NumRequests].token)

----------------------------------------------------------------------------
(* Properties of both loops *)

\* C9: in both programs the first request is issued before any delay, any
\* two successive requests are at least RATE_DELAY apart, and every delay is
\* followed by a request: once the program has ended, no time has been slept
\* since its last request.
C9_RateLimit ==
    /\ NumRequests >= 1 => requests[1].at = 0
    /\ \A i \in 2..NumRequests : requests[i].at - requests[i - 1].at >= RATE_DELAY
    /\ clock > LastRequestAt => pc \in {"request", "retry"}
    /\ pc \in Terminal => clock = LastRequestAt

C9_Witness ==
    /\ prog = "export" /\ pc = "done" /\ AllOk
    /\ NumRequests = 3
    /\ requests[2].at = RATE_DELAY /\ requests[3].at = 2 * RATE_DELAY

----------------------------------------------------------------------------
(* Validation of the search filters *)

\* Some value of --status or --phase is, once trimmed and upper-cased, not
\* in the accepted list.
HasInvalid(a) ==
    \/ \E i \in 1..Len(a.status) : ~InList(StripUpper(a.status[i]), VALID_STATUSES)
    \/ \E i \in 1..Len(a.phase) : ~InList(StripUpper(a.phase[i]), VALID_PHASES)

StatusInvalid(a) ==
    \E i \in 1..Len(a.status) : ~InList(StripUpper(a.status[i]), VALID_STATUSES)

\* C10: a search whose status or phase list holds a value that is not
\* accepted never issues a request; it ends at once with exit status 1, the
\* last line on standard error being the full accepted list of the filter
\* that was refused.
C10_ValidationBeforeNetwork ==
    (prog = "search" /\ HasInvalid(args)) =>
        /\ requests = <<>>
        /\ pc \in {"start", "exited"}
        /\ pc = "exited" =>
            /\ exit_code = 1
            /\ stderr # <<>>
            /\ stderr[Len(stderr)] =
                IF StatusInvalid(args) THEN Line("valid_statuses", VALID_STATUSES)
                ELSE Line("valid_phases", VALID_PHASES)

C10_Witness ==
    /\ prog = "search" /\ pc = "exited"
    /\ args.status = <<" recruiting">>
    /\ args.phase = <<"phase2", "PHASE5">>
    /\ stderr = <<Line("invalid_phase", "PHASE5"), Line("valid_phases", VALID_PHASES)>>

----------------------------------------------------------------------------
(* Continuation tokens *)

\* The query filters and page size of a request: its parameters other than
\* the continuation token and the countTotal option.
Filters(p) == [k \in DOMAIN p \ {"pageToken", "countTotal"} |-> p[k]]

\* The last request before request i that was answered.
LastAnswered(i) ==
    CHOOSE j \in 1..(i - 1) :
        /\ ~Failed(requests[j])
        /\ \A k \in (j + 1)..(i - 1) : Failed(requests[k])

\* The nextPageToken of the answer to request j.
TokenReturned(j) == pages[requests[j].token + 1].nextPageToken

\* C15: in both loops the first request has no pageToken parameter; every
\* later request has one, equal to the nextPageToken of the most recent
\* answer; all requests of a run carry the same filters and page size; and a
\* retry of the export carries the token of the attempt that failed.
C15_TokenThreading ==
    \A i \in 1..NumRequests :
        /\ i = 1 => "pageToken" \notin DOMAIN requests[i].params
        /\ i > 1 =>
            /\ \E j \in 1..(i - 1) : ~Failed(requests[j])
            /\ "pageToken" \in DOMAIN requests[i].params
            /\ requests[i].params["pageToken"] # NoToken
            /\ requests[i].params["pageToken"] = TokenReturned(LastAnswered(i))
        /\ Filters(requests[i].params) = Filters(requests[1].params)
        /\ (i > 1 /\ Failed(requests[i - 1])) =>
            requests[i].params["pageToken"] = requests[i - 1].params["pageToken"]

C15_Witness ==
    /\ prog = "export" /\ pc = "done"
    /\ NumRequests = 4
    /\ ~Failed(requests[2]) /\ Failed(requests[3]) /\ ~Failed(requests[4])
    /\ requests[4].params["pageToken"] = 2
    /\ "countTotal" \notin DOMAIN requests[4].params

----------------------------------------------------------------------------
(* fetch_oncology.extract_row *)

(* A Python str is held as the sequence of its characters, "" as <<>>; an    *)
(* empty dict and an empty list are <<>> as well. A number or a boolean of   *)
(* the registry's JSON is held as the text csv.DictWriter writes for it.     *)

CSV_COLUMNS ==
    <<"nct_id", "brief_title", "official_title", "overall_status",
      "phase", "study_type", "enrollment", "enrollment_type",
      "start_date", "completion_date", "last_update_post_date", "lead_sponsor",
      "lead_sponsor_class", "collaborators", "conditions", "keywords",
      "interventions", "primary_outcomes", "secondary_outcomes", "sex",
      "min_age", "max_age", "healthy_volunteers", "study_url">>

\* d.get(k, default)
Get(d, k, default) == IF k \in DOMAIN d THEN d[k] ELSE default

RECURSIVE Join(_, _)
\* sep.join(xs)
Join(sep, xs) ==
    IF xs = <<>> THEN <<>>
    ELSE IF Len(xs) = 1 THEN xs[1]
    ELSE xs[1] \o sep \o Join(sep, Tail(xs))

\* Variant of StudyUrl: the URL is built whether or not there is an identifier.
StudyUrlAlways(nct_id) ==
    <<"h", "t", "t", "p", "s", ":", "/", "/", "c", "l", "i", "n", "i", "c", "a", "l", "t", "r", "i", "a", "l", "s", ".", "g", "o", "v", "/", "s", "t", "u", "d", "y", "/">> \o nct_id

\* Line 97: f"https://clinicaltrials.gov/study/{nct_id}" if nct_id else ""
StudyUrl(nct_id) ==
    IF nct_id # <<>>
    THEN <<"h", "t", "t", "p", "s", ":", "/", "/", "c", "l", "i", "n", "i", "c", "a", "l", "t", "r", "i", "a", "l", "s", ".", "g", "o", "v", "/", "s", "t", "u", "d", "y", "/">> \o nct_id
    ELSE <<>>

\* Lines 50-98
extract_row(study) ==
    LET proto == Get(study, "protocolSection", <<>>)
        ident == Get(proto, "identificationModule", <<>>)
        status_mod == Get(proto, "statusModule", <<>>)
        design == Get(proto, "designModule", <<>>)
        conditions == Get(proto, "conditionsModule", <<>>)
        sponsors == Get(proto, "sponsorCollaboratorsModule", <<>>)
        eligibility == Get(proto, "eligibilityModule", <<>>)
        arms == Get(proto, "armsInterventionsModule", <<>>)
        outcomes == Get(proto, "outcomesModule", <<>>)
        nct_id == Get(ident, "nctId", <<>>)
        phases == Get(design, "phases", <<>>)
        enrollment_info == Get(design, "enrollmentInfo", <<>>)
        lead == Get(sponsors, "leadSponsor", <<>>)
        collabs == Get(sponsors, "collaborators", <<>>)
        interventions == Get(arms, "interventions", <<>>)
        primary == Get(outcomes, "primaryOutcomes", <<>>)
        secondary == Get(outcomes, "secondaryOutcomes", <<>>)
    IN  [nct_id |-> nct_id,
         brief_title |-> Get(ident, "briefTitle", <<>>),
         official_title |-> Get(ident, "officialTitle", <<>>),
         overall_status |-> Get(status_mod, "overallStatus", <<>>),
         phase |-> IF phases # <<>> THEN Join(<<"|">>, phases) ELSE <<>>,
         study_type |-> Get(design, "studyType", <<>>),
         enrollment |-> Get(enrollment_info, "count", <<>>),
         enrollment_type |-> Get(enrollment_info, "type", <<>>),
         start_date |-> Get(Get(status_mod, "startDateStruct", <<>>), "date", <<>>),
         completion_date |->
            Get(Get(status_mod, "completionDateStruct", <<>>), "date", <<>>),
         last_update_post_date |->
            Get(Get(status_mod, "lastUpdatePostDateStruct", <<>>), "date", <<>>),
         lead_sponsor |-> Get(lead, "name", <<>>),
         lead_sponsor_class |-> Get(lead, "class", <<>>),
         collaborators |->
            Join(<<"|">>, [i \in 1..Len(collabs) |-> Get(collabs[i], "name", <<>>)]),
         conditions |-> Join(<<"|">>, Get(conditions, "conditions", <<>>)),
         keywords |-> Join(<<"|">>, Get(conditions, "keywords", <<>>)),
         interventions |->
            Join(<<"|">>, [i \in 1..Len(interventions) |->
                Get(interventions[i], "type", <<>>) \o <<":">> \o
                Get(interventions[i], "name", <<>>)]),
         primary_outcomes |->
            Join(<<"|">>, [i \in 1..Len(primary) |-> Get(primary[i], "measure", <<>>)]),
         secondary_outcomes |->
            Join(<<"|">>, [i \in 1..Len(secondary) |-> Get(secondary[i], "measure", <<>>)]),
         sex |-> Get(eligibility, "sex", <<>>),
         min_age |-> Get(eligibility, "minimumAge", <<>>),
         max_age |-> Get(eligibility, "maximumAge", <<>>),
         healthy_volunteers |-> Get(eligibility, "healthyVolunteers", <<>>),
         study_url |-> StudyUrl(nct_id)]

\* A well-formed record of the registry: every key extract_row reads is there.
WellFormed ==
    [protocolSection |-> [identificationModule |-> [nctId |-> <<"N", "1">>,
         briefTitle |-> <<"b", "t">>,
         officialTitle |-> <<"o", "t">>],
       statusModule |-> [overallStatus |-> <<"R", "E", "C", "R", "U", "I", "T", "I", "N", "G">>,
         startDateStruct |-> [date |-> <<"2", "0", "2", "3", "-", "0", "5">>],
         completionDateStruct |-> [date |-> <<"2", "0", "2", "6", "-", "0", "1", "-", "3", "1">>],
         lastUpdatePostDateStruct |-> [date |-> <<"2", "0", "2", "4", "-", "0", "2", "-", "0", "2">>]],
       designModule |-> [phases |-> <<<<"P", "H", "A", "S", "E", "1">>, <<"P", "H", "A", "S", "E", "2">>>>,
         studyType |-> <<"I", "N", "T", "E", "R", "V", "E", "N", "T", "I", "O", "N", "A", "L">>,
         enrollmentInfo |-> [count |-> <<"3", "0">>,
           type |-> <<"E", "S", "T", "I", "M", "A", "T", "E", "D">>]],
       descriptionModule |-> [briefSummary |-> <<"b", "s">>],
       conditionsModule |-> [conditions |-> <<<<"c", "1">>, <<"c", "2">>>>,
         keywords |-> <<<<"k", "1">>>>],
       sponsorCollaboratorsModule |-> [leadSponsor |-> [name |-> <<"P", "f", "i", "z", "e", "r">>,
           class |-> <<"I", "N", "D", "U", "S", "T", "R", "Y">>],
         collaborators |-> <<[name |-> <<"N", "C", "I">>,
             class |-> <<"N", "I", "H">>]>>],
       eligibilityModule |-> [sex |-> <<"A", "L", "L">>,
         minimumAge |-> <<"1", "8", " ", "Y", "e", "a", "r", "s">>,
         maximumAge |-> <<"N", "/", "A">>,
         healthyVolunteers |-> <<"F", "a", "l", "s", "e">>],
       armsInterventionsModule |-> [interventions |-> <<[type |-> <<"D", "R", "U", "G">>,
             name |-> <<"X">>]>>],
       outcomesModule |-> [primaryOutcomes |-> <<[measure |-> <<"O", "S">>]>>,
         secondaryOutcomes |-> <<[measure |-> <<"P", "F", "S">>]>>]]]

\* The keys of WellFormed, each as the path that leads to it; "#1" is the
\* first entry of a list.
KeyPaths ==
    {
    <<"protocolSection">>,
    <<"protocolSection", "identificationModule">>,
    <<"protocolSection", "identificationModule", "nctId">>,
    <<"protocolSection", "identificationModule", "briefTitle">>,
    <<"protocolSection", "identificationModule", "officialTitle">>,
    <<"protocolSection", "statusModule">>,
    <<"protocolSection", "statusModule", "overallStatus">>,
    <<"protocolSection", "statusModule", "startDateStruct">>,
    <<"protocolSection", "statusModule", "startDateStruct", "date">>,
    <<"protocolSection", "statusModule", "completionDateStruct">>,
    <<"protocolSection", "statusModule", "completionDateStruct", "date">>,
    <<"protocolSection", "statusModule", "lastUpdatePostDateStruct">>,
    <<"protocolSection", "statusModule", "lastUpdatePostDateStruct", "date">>,
    <<"protocolSection", "designModule">>,
    <<"protocolSection", "designModule", "phases">>,
    <<"protocolSection", "designModule", "studyType">>,
    <<"protocolSection", "designModule", "enrollmentInfo">>,
    <<"protocolSection", "designModule", "enrollmentInfo", "count">>,
    <<"protocolSection", "designModule", "enrollmentInfo", "type">>,
    <<"protocolSection", "descriptionModule">>,
    <<"protocolSection", "descriptionModule", "briefSummary">>,
    <<"protocolSection", "conditionsModule">>,
    <<"protocolSection", "conditionsModule", "conditions">>,
    <<"protocolSection", "conditionsModule", "keywords">>,
    <<"protocolSection", "sponsorCollaboratorsModule">>,
    <<"protocolSection", "sponsorCollaboratorsModule", "leadSponsor">>,
    <<"protocolSection", "sponsorCollaboratorsModule", "leadSponsor", "name">>,
    <<"protocolSection", "sponsorCollaboratorsModule", "leadSponsor", "class">>,
    <<"protocolSection", "sponsorCollaboratorsModule", "collaborators">>,
    <<"protocolSection", "sponsorCollaboratorsModule", "collaborators", "#1", "name">>,
    <<"protocolSection", "sponsorCollaboratorsModule", "collaborators", "#1", "class">>,
    <<"protocolSection", "eligibilityModule">>,
    <<"protocolSection", "eligibilityModule", "sex">>,
    <<"protocolSection", "eligibilityModule", "minimumAge">>,
    <<"protocolSection", "eligibilityModule", "maximumAge">>,
    <<"protocolSection", "eligibilityModule", "healthyVolunteers">>,
    <<"protocolSection", "armsInterventionsModule">>,
    <<"protocolSection", "armsInterventionsModule", "interventions">>,
    <<"protocolSection", "armsInterventionsModule", "interventions", "#1", "type">>,
    <<"protocolSection", "armsInterventionsModule", "interventions", "#1", "name">>,
    <<"protocolSection", "outcomesModule">>,
    <<"protocolSection", "outcomesModule", "primaryOutcomes">>,
    <<"protocolSection", "outcomesModule", "primaryOutcomes", "#1", "measure">>,
    <<"protocolSection", "outcomesModule", "secondaryOutcomes">>,
    <<"protocolSection", "outcomesModule", "secondaryOutcomes", "#1", "measure">>}

MaxDeleted == 2     \* keys deleted from the well-formed record

IsIndex(k) == k = "#1"

RECURSIVE HasPath(_, _)
\* The record holds the key (or list entry) the path leads to.
HasPath(d, path) ==
    IF path = <<>> THEN TRUE
    ELSE IF IsIndex(Head(path)) THEN 1 \in DOMAIN d /\ HasPath(d[1], Tail(path))
    ELSE Head(path) \in DOMAIN d /\ HasPath(d[Head(path)], Tail(path))

RECURSIVE Delete(_, _)
\* del d[k] at the end of the path (nothing if the path is not there)
Delete(d, path) ==
    IF ~HasPath(d, path) THEN d
    ELSE IF Len(path) = 1 THEN Pop(d, Head(path))
    ELSE IF IsIndex(Head(path)) THEN [d EXCEPT ![1] = Delete(@, Tail(path))]
    ELSE [d EXCEPT ![Head(path)] = Delete(@, Tail(path))]

FetchIdle ==
    /\ args = NoArgs
    /\ params = <<>>
    /\ data = NoData
    /\ pages = <<>>
    /\ withCount = FALSE
    /\ clock = 0
    /\ requests = <<>>
    /\ page = 0
    /\ fetched = 0
    /\ total = 0
    /\ page_token = NoToken
    /\ pages_fetched = 0
    /\ total_shown = 0
    /\ all_studies = <<>>
    /\ csv_rows = <<>>
    /\ stdout = <<>>
    /\ stderr = <<>>
    /\ exit_code = 0

InitFlatten ==
    /\ prog = "extract_row"
    /\ pc = "start"
    /\ input = [study |-> WellFormed, deleted |-> 0]
    /\ result = <<>>
    /\ FetchIdle

\* The caller hands over a record with one more key missing.
DeleteKey ==
    /\ prog = "extract_row" /\ pc = "start"
    /\ input.deleted < MaxDeleted
    /\ \E path \in KeyPaths :
        /\ HasPath(input.study, path)
        /\ input' = [study |-> Delete(input.study, path),
                     deleted |-> input.deleted + 1]
    /\ UNCHANGED <<prog, pc, result>>
    /\ UNCHANGED fetchVars

\* row = extract_row(study)
ExtractRow ==
    /\ prog = "extract_row" /\ pc = "start"
    /\ result' = extract_row(input.study)
    /\ pc' = "done"
    /\ UNCHANGED <<prog, input>>
    /\ UNCHANGED fetchVars

NextFlatten == DeleteKey \/ ExtractRow

SpecFlatten == InitFlatten /\ [][NextFlatten]_vars

----------------------------------------------------------------------------
(* Properties of extract_row *)

Range(f) == {f[x] : x \in DOMAIN f}

\* The key of the record a column is read from (for a list column, the list).
SourceKey(c) ==
    CASE
         c = "nct_id" -> <<"protocolSection", "identificationModule", "nctId">>
      [] c = "brief_title" -> <<"protocolSection", "identificationModule", "briefTitle">>
      [] c = "official_title" -> <<"protocolSection", "identificationModule", "officialTitle">>
      [] c = "overall_status" -> <<"protocolSection", "statusModule", "overallStatus">>
      [] c = "phase" -> <<"protocolSection", "designModule", "phases">>
      [] c = "study_type" -> <<"protocolSection", "designModule", "studyType">>
      [] c = "enrollment" -> <<"protocolSection", "designModule", "enrollmentInfo", "count">>
      [] c = "enrollment_type" -> <<"protocolSection", "designModule", "enrollmentInfo", "type">>
      [] c = "start_date" -> <<"protocolSection", "statusModule", "startDateStruct", "date">>
      [] c = "completion_date" -> <<"protocolSection", "statusModule", "completionDateStruct", "date">>
      [] c = "last_update_post_date" -> <<"protocolSection", "statusModule", "lastUpdatePostDateStruct", "date">>
      [] c = "lead_sponsor" -> <<"protocolSection", "sponsorCollaboratorsModule", "leadSponsor", "name">>
      [] c = "lead_sponsor_class" -> <<"protocolSection", "sponsorCollaboratorsModule", "leadSponsor", "class">>
      [] c = "collaborators" -> <<"protocolSection", "sponsorCollaboratorsModule", "collaborators">>
      [] c = "conditions" -> <<"protocolSection", "conditionsModule", "conditions">>
      [] c = "keywords" -> <<"protocolSection", "conditionsModule", "keywords">>
      [] c = "interventions" -> <<"protocolSection", "armsInterventionsModule", "interventions">>
      [] c = "primary_outcomes" -> <<"protocolSection", "outcomesModule", "primaryOutcomes">>
      [] c = "secondary_outcomes" -> <<"protocolSection", "outcomesModule", "secondaryOutcomes">>
      [] c = "sex" -> <<"protocolSection", "eligibilityModule", "sex">>
      [] c = "min_age" -> <<"protocolSection", "eligibilityModule", "minimumAge">>
      [] c = "max_age" -> <<"protocolSection", "eligibilityModule", "maximumAge">>
      [] c = "healthy_volunteers" -> <<"protocolSection", "eligibilityModule", "healthyVolunteers">>
      [] c = "study_url" -> <<"protocolSection", "identificationModule", "nctId">>

\* The columns made of one slot per entry of a list of objects, and the keys
\* read from each entry.
EntryKeys(c) ==
    CASE c = "collaborators" -> {"name"}
      [] c = "interventions" -> {"type", "name"}
      [] c = "primary_outcomes" -> {"measure"}
      [] c = "secondary_outcomes" -> {"measure"}
      [] OTHER -> {}

\* The record holds no data for column c: its key is missing, or it is a
\* list of objects none of which holds a key the column reads.
SourceMissing(study, c) ==
    \/ ~HasPath(study, SourceKey(c))
    \/ /\ EntryKeys(c) # {}
       /\ \A k \in EntryKeys(c) : ~HasPath(study, SourceKey(c) \o <<"#1", k>>)

\* C11 as stated: for a record with keys deleted at any level, extract_row
\* returns a row with exactly the 24 columns in which every field without
\* source data is the empty string.
C11_MissingDataIsEmpty ==
    (prog = "extract_row" /\ pc = "done") =>
        /\ DOMAIN result = Range(CSV_COLUMNS)
        /\ \A c \in Range(CSV_COLUMNS) :
            SourceMissing(input.study, c) => result[c] = <<>>

\* C11 (amended): extract_row returns for every such record (it is never
\* stuck) a row whose keys are exactly the 24 distinct names of CSV_COLUMNS;
\* every field whose source key is missing is the empty string, and a field
\* whose list is there but whose entries hold none of its data holds nothing
\* but the delimiters.
C11_FlattenTotal ==
    /\ (prog = "extract_row" /\ pc = "start") => ENABLED ExtractRow
    /\ (prog = "extract_row" /\ pc = "done") =>
        /\ DOMAIN result = Range(CSV_COLUMNS)
        /\ Len(CSV_COLUMNS) = 24 /\ Cardinality(Range(CSV_COLUMNS)) = 24
        /\ \A c \in Range(CSV_COLUMNS) :
            /\ ~HasPath(input.study, SourceKey(c)) => result[c] = <<>>
            /\ SourceMissing(input.study, c) => Range(result[c]) \subseteq {"|", ":"}

C11_Witness ==
    /\ prog = "extract_row" /\ pc = "done"
    /\ input.deleted = 2
    /\ HasPath(input.study, SourceKey("interventions") \o <<"#1">>)
    /\ SourceMissing(input.study, "interventions")
    /\ result.interventions = <<":">>
    /\ result.study_url # <<>>

----------------------------------------------------------------------------
(* analyze.classify_sponsor *)

\* The entries of the set literal at lines 13-50, in the order written.
LARGE_CAP ==
    <<
    <<"J", "o", "h", "n", "s", "o", "n", " ", "&", " ", "J", "o", "h", "n", "s", "o", "n">>,
    <<"P", "f", "i", "z", "e", "r">>,
    <<"R", "o", "c", "h", "e">>,
    <<"H", "o", "f", "f", "m", "a", "n", "n", "-", "L", "a", " ", "R", "o", "c", "h", "e">>,
    <<"F", ".", " ", "H", "o", "f", "f", "m", "a", "n", "n", "-", "L", "a", " ", "R", "o", "c", "h", "e">>,
    <<"N", "o", "v", "a", "r", "t", "i", "s">>,
    <<"M", "e", "r", "c", "k", " ", "S", "h", "a", "r", "p", " ", "&", " ", "D", "o", "h", "m", "e">>,
    <<"M", "e", "r", "c", "k", " ", "&", " ", "C", "o">>,
    <<"M", "S", "D">>,
    <<"A", "b", "b", "V", "i", "e">>,
    <<"E", "l", "i", " ", "L", "i", "l", "l", "y">>,
    <<"L", "i", "l", "l", "y">>,
    <<"A", "s", "t", "r", "a", "Z", "e", "n", "e", "c", "a">>,
    <<"B", "r", "i", "s", "t", "o", "l", "-", "M", "y", "e", "r", "s", " ", "S", "q", "u", "i", "b", "b">>,
    <<"B", "r", "i", "s", "t", "o", "l", " ", "M", "y", "e", "r", "s", " ", "S", "q", "u", "i", "b", "b">>,
    <<"A", "m", "g", "e", "n">>,
    <<"G", "i", "l", "e", "a", "d", " ", "S", "c", "i", "e", "n", "c", "e", "s">>,
    <<"G", "i", "l", "e", "a", "d">>,
    <<"S", "a", "n", "o", "f", "i">>,
    <<"G", "S", "K">>,
    <<"G", "l", "a", "x", "o", "S", "m", "i", "t", "h", "K", "l", "i", "n", "e">>,
    <<"B", "a", "y", "e", "r">>,
    <<"R", "e", "g", "e", "n", "e", "r", "o", "n">>,
    <<"R", "e", "g", "e", "n", "e", "r", "o", "n", " ", "P", "h", "a", "r", "m", "a", "c", "e", "u", "t", "i", "c", "a", "l", "s">>,
    <<"T", "a", "k", "e", "d", "a">>,
    <<"N", "o", "v", "o", " ", "N", "o", "r", "d", "i", "s", "k">>,
    <<"B", "o", "e", "h", "r", "i", "n", "g", "e", "r", " ", "I", "n", "g", "e", "l", "h", "e", "i", "m">>,
    <<"A", "s", "t", "e", "l", "l", "a", "s">>,
    <<"A", "s", "t", "e", "l", "l", "a", "s", " ", "P", "h", "a", "r", "m", "a">>,
    <<"D", "a", "i", "i", "c", "h", "i", " ", "S", "a", "n", "k", "y", "o">>,
    <<"M", "e", "r", "c", "k", " ", "K", "G", "a", "A">>,
    <<"E", "M", "D", " ", "S", "e", "r", "o", "n", "o">>,
    <<"V", "e", "r", "t", "e", "x">>,
    <<"V", "e", "r", "t", "e", "x", " ", "P", "h", "a", "r", "m", "a", "c", "e", "u", "t", "i", "c", "a", "l", "s">>,
    <<"M", "o", "d", "e", "r", "n", "a">>,
    <<"B", "i", "o", "N", "T", "e", "c", "h">>>>

\* The entries of the set literal at lines 55-129, in the order written (a
\* set holds the entry written twice once).
MID_MARKET ==
    <<
    <<"S", "e", "a", "g", "e", "n">>,
    <<"I", "n", "c", "y", "t", "e">>,
    <<"I", "n", "c", "y", "t", "e", " ", "C", "o", "r", "p", "o", "r", "a", "t", "i", "o", "n">>,
    <<"J", "a", "z", "z", " ", "P", "h", "a", "r", "m", "a", "c", "e", "u", "t", "i", "c", "a", "l", "s">>,
    <<"E", "x", "a", "c", "t", " ", "S", "c", "i", "e", "n", "c", "e", "s">>,
    <<"B", "e", "i", "G", "e", "n", "e">>,
    <<"E", "x", "e", "l", "i", "x", "i", "s">>,
    <<"B", "l", "u", "e", "p", "r", "i", "n", "t", " ", "M", "e", "d", "i", "c", "i", "n", "e", "s">>,
    <<"M", "i", "r", "a", "t", "i", " ", "T", "h", "e", "r", "a", "p", "e", "u", "t", "i", "c", "s">>,
    <<"A", "r", "c", "u", "s", " ", "B", "i", "o", "s", "c", "i", "e", "n", "c", "e", "s">>,
    <<"N", "e", "k", "t", "a", "r", " ", "T", "h", "e", "r", "a", "p", "e", "u", "t", "i", "c", "s">>,
    <<"I", "o", "v", "a", "n", "c", "e", " ", "B", "i", "o", "t", "h", "e", "r", "a", "p", "e", "u", "t", "i", "c", "s">>,
    <<"M", "a", "c", "r", "o", "G", "e", "n", "i", "c", "s">>,
    <<"I", "m", "m", "u", "n", "o", "m", "e", "d", "i", "c", "s">>,
    <<"A", "g", "i", "o", "s", " ", "P", "h", "a", "r", "m", "a", "c", "e", "u", "t", "i", "c", "a", "l", "s">>,
    <<"A", "r", "r", "a", "y", " ", "B", "i", "o", "P", "h", "a", "r", "m", "a">>,
    <<"D", "e", "c", "i", "p", "h", "e", "r", "a", " ", "P", "h", "a", "r", "m", "a", "c", "e", "u", "t", "i", "c", "a", "l", "s">>,
    <<"Y", "-", "m", "A", "b", "s", " ", "T", "h", "e", "r", "a", "p", "e", "u", "t", "i", "c", "s">>,
    <<"R", "e", "l", "a", "y", " ", "T", "h", "e", "r", "a", "p", "e", "u", "t", "i", "c", "s">>,
    <<"R", "e", "v", "o", "l", "u", "t", "i", "o", "n", " ", "M", "e", "d", "i", "c", "i", "n", "e", "s">>,
    <<"N", "u", "v", "a", "l", "e", "n", "t">>,
    <<"G", "1", " ", "T", "h", "e", "r", "a", "p", "e", "u", "t", "i", "c", "s">>,
    <<"T", "u", "r", "n", "i", "n", "g", " ", "P", "o", "i", "n", "t", " ", "T", "h", "e", "r", "a", "p", "e", "u", "t", "i", "c", "s">>,
    <<"Z", "y", "m", "e", "w", "o", "r", "k", "s">>,
    <<"i", "T", "e", "o", "s", " ", "T", "h", "e", "r", "a", "p", "e", "u", "t", "i", "c", "s">>,
    <<"Z", "e", "n", "t", "a", "l", "i", "s", " ", "P", "h", "a", "r", "m", "a", "c", "e", "u", "t", "i", "c", "a", "l", "s">>,
    <<"M", "e", "r", "u", "s">>,
    <<"C", "y", "t", "o", "m", "X", " ", "T", "h", "e", "r", "a", "p", "e", "u", "t", "i", "c", "s">>,
    <<"S", "y", "n", "d", "a", "x", " ", "P", "h", "a", "r", "m", "a", "c", "e", "u", "t", "i", "c", "a", "l", "s">>,
    <<"C", "u", "l", "l", "i", "n", "a", "n", " ", "O", "n", "c", "o", "l", "o", "g", "y">>,
    <<"I", "p", "s", "e", "n">>,
    <<"E", "i", "s", "a", "i">>,
    <<"E", "i", "s", "a", "i", " ", "C", "o", ".", ",", " ", "L", "t", "d", ".">>,
    <<"S", "e", "r", "v", "i", "e", "r">>,
    <<"L", "e", "s", " ", "L", "a", "b", "o", "r", "a", "t", "o", "i", "r", "e", "s", " ", "S", "e", "r", "v", "i", "e", "r">>,
    <<"H", "e", "n", "g", "r", "u", "i">>,
    <<"J", "i", "a", "n", "g", "s", "u", " ", "H", "e", "n", "g", "R", "u", "i", " ", "M", "e", "d", "i", "c", "i", "n", "e">>,
    <<"J", "i", "a", "n", "g", "s", "u", " ", "H", "e", "n", "g", "r", "u", "i", " ", "P", "h", "a", "r", "m", "a", "c", "e", "u", "t", "i", "c", "a", "l", "s">>,
    <<"H", "u", "t", "c", "h", "i", "s", "o", "n", " ", "M", "e", "d", "i", "p", "h", "a", "r", "m", "a">>,
    <<"Z", "a", "i", " ", "L", "a", "b">>,
    <<"I", "n", "n", "o", "v", "e", "n", "t", " ", "B", "i", "o", "l", "o", "g", "i", "c", "s">>,
    <<"H", "a", "n", "s", "o", "h", " ", "P", "h", "a", "r", "m", "a">>,
    <<"C", "S", "P", "C", " ", "P", "h", "a", "r", "m", "a", "c", "e", "u", "t", "i", "c", "a", "l">>,
    <<"K", "e", "l", "u", "n">>,
    <<"O", "n", "o", " ", "P", "h", "a", "r", "m", "a", "c", "e", "u", "t", "i", "c", "a", "l">>,
    <<"C", "h", "u", "g", "a", "i", " ", "P", "h", "a", "r", "m", "a", "c", "e", "u", "t", "i", "c", "a", "l">>,
    <<"S", "u", "n", " ", "P", "h", "a", "r", "m", "a">>,
    <<"S", "u", "n", " ", "P", "h", "a", "r", "m", "a", "c", "e", "u", "t", "i", "c", "a", "l">>,
    <<"D", "r", ".", " ", "R", "e", "d", "d", "y", "'", "s">>,
    <<"T", "e", "v", "a">>,
    <<"T", "e", "v", "a", " ", "P", "h", "a", "r", "m", "a", "c", "e", "u", "t", "i", "c", "a", "l">>,
    <<"M", "y", "l", "a", "n">>,
    <<"V", "i", "a", "t", "r", "i", "s">>,
    <<"H", "i", "k", "m", "a">>,
    <<"P", "e", "r", "r", "i", "g", "o">>,
    <<"A", "l", "e", "x", "i", "o", "n">>,
    <<"A", "l", "e", "x", "i", "o", "n", " ", "P", "h", "a", "r", "m", "a", "c", "e", "u", "t", "i", "c", "a", "l", "s">>,
    <<"A", "l", "n", "y", "a", "m", " ", "P", "h", "a", "r", "m", "a", "c", "e", "u", "t", "i", "c", "a", "l", "s">>,
    <<"B", "i", "o", "M", "a", "r", "i", "n">>,
    <<"B", "i", "o", "M", "a", "r", "i", "n", " ", "P", "h", "a", "r", "m", "a", "c", "e", "u", "t", "i", "c", "a", "l">>,
    <<"H", "o", "r", "i", "z", "o", "n", " ", "T", "h", "e", "r", "a", "p", "e", "u", "t", "i", "c", "s">>,
    <<"U", "n", "i", "t", "e", "d", " ", "T", "h", "e", "r", "a", "p", "e", "u", "t", "i", "c", "s">>,
    <<"N", "e", "u", "r", "o", "c", "r", "i", "n", "e", " ", "B", "i", "o", "s", "c", "i", "e", "n", "c", "e", "s">>,
    <<"H", "a", "l", "o", "z", "y", "m", "e">>,
    <<"H", "a", "l", "o", "z", "y", "m", "e", " ", "T", "h", "e", "r", "a", "p", "e", "u", "t", "i", "c", "s">>,
    <<"C", "o", "h", "e", "r", "u", "s", " ", "B", "i", "o", "S", "c", "i", "e", "n", "c", "e", "s">>,
    <<"P", "i", "e", "r", "r", "e", " ", "F", "a", "b", "r", "e">>,
    <<"M", "u", "n", "d", "i", "p", "h", "a", "r", "m", "a">>,
    <<"O", "t", "s", "u", "k", "a">>,
    <<"O", "t", "s", "u", "k", "a", " ", "P", "h", "a", "r", "m", "a", "c", "e", "u", "t", "i", "c", "a", "l">>,
    <<"S", "u", "m", "i", "t", "o", "m", "o", " ", "P", "h", "a", "r", "m", "a">>,
    <<"K", "y", "o", "w", "a", " ", "K", "i", "r", "i", "n">>>>

\* The lower-case letter of each upper-case letter.
ToLower ==
    [A |-> "a", B |-> "b", C |-> "c", D |-> "d", E |-> "e", F |-> "f", G
     |-> "g", H |-> "h", I |-> "i", J |-> "j", K |-> "k", L |-> "l", M |->
     "m", N |-> "n", O |-> "o", P |-> "p", Q |-> "q", R |-> "r", S |-> "s",
     T |-> "t", U |-> "u", V |-> "v", W |-> "w", X |-> "x", Y |-> "y", Z
     |-> "z"]

\* str.lower()
Lower(s) ==
    [i \in 1..Len(s) |-> IF s[i] \in DOMAIN ToLower THEN ToLower[s[i]] ELSE s[i]]

Whitespace == {" ", "\t"}

RECURSIVE Strip(_)
\* str.strip()
Strip(s) ==
    IF s = <<>> THEN s
    ELSE IF Head(s) \in Whitespace THEN Strip(Tail(s))
    ELSE IF s[Len(s)] \in Whitespace THEN Strip(SubSeq(s, 1, Len(s) - 1))
    ELSE s

\* s in t
Contains(s, t) ==
    \E i \in 0..(Len(t) - Len(s)) : SubSeq(t, i + 1, i + Len(s)) = s

\* Variant of Match: an entry matches only when the name contains it.
MatchOneWay(entry, name_norm) ==
    Contains(Lower(entry), Lower(name_norm))

\* Lines 173 and 176: lc.lower() in name_norm.lower() or
\* name_norm.lower() in lc.lower()
Match(entry, name_norm) ==
    LET e == Lower(entry)
        n == Lower(name_norm)
    IN  Contains(e, n) \/ Contains(n, e)

RECURSIVE Scan(_, _, _)
\* for entry in entries: if <match>: return ...  -- TRUE when the loop
\* returns, FALSE when it runs to its end.
Scan(entries, name_norm, i) ==
    IF i > Len(entries) THEN FALSE
    ELSE IF Match(entries[i], name_norm) THEN TRUE
    ELSE Scan(entries, name_norm, i + 1)

RECURSIVE FirstMatch(_, _, _)
\* Index of the first entry of the scan that matches, 0 if there is none.
FirstMatch(entries, name_norm, i) ==
    IF i > Len(entries) THEN 0
    ELSE IF Match(entries[i], name_norm) THEN i
    ELSE FirstMatch(entries, name_norm, i + 1)

INDUSTRY == <<"I", "N", "D", "U", "S", "T", "R", "Y">>

\* Variant of IsIndustry: every class but OTHER counts as industry.
IsIndustryNotOther(sponsor_class) == sponsor_class # <<"O", "T", "H", "E", "R">>

\* Line 169: sponsor_class != "INDUSTRY"
IsIndustry(sponsor_class) == sponsor_class = INDUSTRY

\* Variant of classify_sponsor: one scan over both sets, the tier being that
\* of the first entry that matches.
classify_sponsor_merged(name, sponsor_class, large_cap, mid_market) ==
    IF ~IsIndustry(sponsor_class) THEN "None"
    ELSE LET name_norm == Strip(name)
             merged == IF Head(large_cap) = Head(LARGE_CAP)
                       THEN large_cap \o mid_market
                       ELSE mid_market \o large_cap
             hit == FirstMatch(merged, name_norm, 1)
         IN  IF hit = 0 THEN "emerging"
             ELSE IF \E i \in 1..Len(large_cap) : large_cap[i] = merged[hit]
                  THEN "large_cap"
                  ELSE "mid_market"

\* Lines 167-179. large_cap and mid_market are the two sets as the sequences
\* in which this run of the interpreter iterates them.
classify_sponsor(name, sponsor_class, large_cap, mid_market) ==
    IF ~IsIndustry(sponsor_class) THEN "None"
    ELSE LET name_norm == Strip(name)
         IN  IF Scan(large_cap, name_norm, 1) THEN "large_cap"
             ELSE IF Scan(mid_market, name_norm, 1) THEN "mid_market"
             ELSE "emerging"

MaxShift == 1       \* rotations of a set's iteration order

\* An iteration order of a set: the written order rotated, then reversed or not.
Orders == [shift : 0..MaxShift, reversed : BOOLEAN]

Ordered(entries, order) ==
    LET n == Len(entries)
        rotated == [i \in 1..n |-> entries[((i - 1 + order.shift) % n) + 1]]
    IN  IF order.reversed THEN [i \in 1..n |-> rotated[n + 1 - i]] ELSE rotated

\* Sponsor names and classes as the lead_sponsor and lead_sponsor_class
\* cells of a row may hold them.
NameSpace ==
    {<<"P", "f", "i", "z", "e", "r">>,
     <<"A", "n", "y", " ", "B", "i", "o", "t", "e", "c", "h", " ", "I", "n", "c">>,
     <<"S", "t", "a", "n", "f", "o", "r", "d", " ", "U", "n", "i", "v", "e", "r", "s", "i", "t", "y">>,
     <<>>,
     <<" ">>,
     <<" ", "\t">>,
     <<" ", " ", "P", "f", "i", "z", "e", "r", " ", "I", "n", "c", " ">>,
     <<"M", "E", "R", "C", "K">>,
     <<"S", "u", "n">>,
     <<"e">>,
     <<"L", "i", "l", "l", "y", " ", "a", "n", "d", " ", "I", "n", "c", "y", "t", "e">>,
     <<"s", "e", "a", "g", "e", "n", " ", "i", "n", "c", ".">>}

ClassSpace ==
    {<<"I", "N", "D", "U", "S", "T", "R", "Y">>,
     <<"O", "T", "H", "E", "R">>,
     <<"N", "I", "H">>,
     <<"i", "n", "d", "u", "s", "t", "r", "y">>}

InitClassify ==
    /\ prog = "classify_sponsor"
    /\ pc = "start"
    /\ input \in [name : NameSpace, sponsor_class : ClassSpace,
                  large_cap : Orders, mid_market : Orders]
    /\ result = <<>>
    /\ FetchIdle

\* Line 196: tier = classify_sponsor(row["lead_sponsor"], row["lead_sponsor_class"])
ClassifySponsor ==
    /\ prog = "classify_sponsor" /\ pc = "start"
    /\ result' = classify_sponsor(input.name, input.sponsor_class,
                                  Ordered(LARGE_CAP, input.large_cap),
                                  Ordered(MID_MARKET, input.mid_market))
    /\ pc' = "done"
    /\ UNCHANGED <<prog, input>>
    /\ UNCHANGED fetchVars

NextClassify == ClassifySponsor

SpecClassify == InitClassify /\ [][NextClassify]_vars

----------------------------------------------------------------------------
(* Properties of classify_sponsor *)

Classified == prog = "classify_sponsor" /\ pc = "done"

\* The entry and the trimmed name contain one another, case ignored.
ContainOneAnother(entry, name) ==
    LET e == Lower(entry)
        n == Lower(Strip(name))
    IN  Contains(e, n) \/ Contains(n, e)

MatchesLargeCap(name) == \E e \in Range(LARGE_CAP) : ContainOneAnother(e, name)
MatchesMidMarket(name) == \E e \in Range(MID_MARKET) : ContainOneAnother(e, name)

\* C12: for every name and every class other than INDUSTRY the result is
\* None, also when the name is an entry of the large-cap or mid-market set.
C12_NonIndustryNone ==
    (Classified /\ input.sponsor_class # INDUSTRY) => result = "None"

C12_Witness ==
    /\ Classified
    /\ input.sponsor_class = <<"N", "I", "H">>
    /\ input.name \in Range(LARGE_CAP)
    /\ result = "None"

\* C13: for class INDUSTRY the result is large_cap exactly when some
\* large-cap entry and the trimmed name contain one another (either
\* direction, case ignored); otherwise mid_market exactly when some
\* mid-market entry does; otherwise emerging. A name matching both sets is
\* large_cap.
C13_TierRule ==
    (Classified /\ input.sponsor_class = INDUSTRY) =>
        /\ result = "large_cap" <=> MatchesLargeCap(input.name)
        /\ result = "mid_market" <=>
            (~MatchesLargeCap(input.name) /\ MatchesMidMarket(input.name))
        /\ result = "emerging" <=>
            (~MatchesLargeCap(input.name) /\ ~MatchesMidMarket(input.name))
        /\ result \in {"large_cap", "mid_market", "emerging"}

C13_Witness ==
    /\ Classified
    /\ input.sponsor_class = INDUSTRY
    /\ input.name = <<"S", "u", "n">>
    /\ ~Contains(Lower(<<"S", "u", "n", " ", "P", "h", "a", "r", "m", "a">>), Lower(input.name))
    /\ result = "mid_market"

C13_WitnessBoth ==
    /\ Classified
    /\ input.sponsor_class = INDUSTRY
    /\ MatchesLargeCap(input.name) /\ MatchesMidMarket(input.name)
    /\ Strip(input.name) # <<>>
    /\ result = "large_cap"

\* C16: the result for a (name, class) is the same under every iteration
\* order of LARGE_CAP and of MID_MARKET, also for a name that matches
\* several entries.
C16_OrderIndependent ==
    Classified =>
        \A o1 \in Orders, o2 \in Orders :
            result = classify_sponsor(input.name, input.sponsor_class,
                                      Ordered(LARGE_CAP, o1),
                                      Ordered(MID_MARKET, o2))

C16_Witness ==
    /\ Classified
    /\ input.sponsor_class = INDUSTRY
    /\ input.large_cap.reversed /\ input.mid_market.shift = 1
    /\ Cardinality({e \in Range(LARGE_CAP) : ContainOneAnother(e, input.name)}) > 1
    /\ MatchesMidMarket(input.name)
    /\ result = "large_cap"

\* C18: a curated tier is given only to a name that is non-empty once
\* trimmed; an INDUSTRY sponsor whose name is empty or only whitespace is
\* classified emerging.
C18_EmptyNameIsEmerging ==
    (Classified /\ input.sponsor_class = INDUSTRY) =>
        /\ result \in {"large_cap", "mid_market"} => Strip(input.name) # <<>>
        /\ Strip(input.name) = <<>> => result = "emerging"

----------------------------------------------------------------------------
(* analyze.main: loading the rows and the Q3 aggregation *)

\* The alternatives of ACADEMIC_RE (lines 132-156), each one a sequence of
\* lower-case characters in which "any" stands for the pattern's "." and
\* word says that the alternative is enclosed in \b. A letter with an accent
\* is written by its name.
ACADEMIC_PATTERNS ==
    <<
    [word |-> FALSE, toks |-> <<"u", "n", "i", "v", "e", "r", "s", "i", "t", "y">>],
    [word |-> FALSE, toks |-> <<"u", "n", "i", "v", "e", "r", "s", "i", "t", "y">>],
    [word |-> FALSE, toks |-> <<"u", "n", "i", "v", "e", "r", "s", "i", "t", "a-grave">>],
    [word |-> FALSE, toks |-> <<"u", "n", "i", "v", "e", "r", "s", "i", "t", "e-acute">>],
    [word |-> FALSE, toks |-> <<"u", "n", "i", "v", "e", "r", "s", "i", "d", "a", "d">>],
    [word |-> FALSE, toks |-> <<"u", "n", "i", "v", "e", "r", "s", "i", "d", "a", "d", "e">>],
    [word |-> FALSE, toks |-> <<"u", "n", "i", "v", "e", "r", "s", "i", "t", "a-umlaut", "t">>],
    [word |-> FALSE, toks |-> <<"u", "n", "i", "v", "e", "r", "s", "i", "t", "e", "i", "t">>],
    [word |-> TRUE, toks |-> <<"u", "n", "i", "v">>],
    [word |-> FALSE, toks |-> <<"m", "e", "d", "i", "c", "a", "l", " ", "c", "e", "n", "t", "e", "r">>],
    [word |-> FALSE, toks |-> <<"m", "e", "d", "i", "c", "a", "l", " ", "c", "o", "l", "l", "e", "g", "e">>],
    [word |-> FALSE, toks |-> <<"m", "e", "d", "i", "c", "a", "l", " ", "s", "c", "h", "o", "o", "l">>],
    [word |-> FALSE, toks |-> <<"s", "c", "h", "o", "o", "l", " ", "o", "f", " ", "m", "e", "d", "i", "c", "i", "n", "e">>],
    [word |-> FALSE, toks |-> <<"c", "o", "l", "l", "e", "g", "e", " ", "o", "f", " ", "m", "e", "d", "i", "c", "i", "n", "e">>],
    [word |-> FALSE, toks |-> <<"t", "e", "a", "c", "h", "i", "n", "g", " ", "h", "o", "s", "p", "i", "t", "a", "l">>],
    [word |-> FALSE, toks |-> <<"a", "c", "a", "d", "e", "m", "i", "c">>],
    [word |-> FALSE, toks |-> <<"m", "a", "y", "o">>],
    [word |-> FALSE, toks |-> <<"c", "l", "e", "v", "e", "l", "a", "n", "d">>],
    [word |-> FALSE, toks |-> <<"j", "o", "h", "n", "s", " ", "h", "o", "p", "k", "i", "n", "s">>],
    [word |-> FALSE, toks |-> <<"m", "d", " ", "a", "n", "d", "e", "r", "s", "o", "n">>],
    [word |-> FALSE, toks |-> <<"m", "e", "m", "o", "r", "i", "a", "l", " ", "s", "l", "o", "a", "n">>],
    [word |-> FALSE, toks |-> <<"m", "s", "k", "c", "c">>],
    [word |-> FALSE, toks |-> <<"d", "a", "n", "a", "any", "f", "a", "r", "b", "e", "r">>],
    [word |-> FALSE, toks |-> <<"m", "a", "s", "s", " ", "g", "e", "n", "e", "r", "a", "l">>],
    [word |-> FALSE, toks |-> <<"c", "e", "d", "a", "r", "s", "any", "s", "i", "n", "a", "i">>],
    [word |-> FALSE, toks |-> <<"s", "t", "a", "n", "f", "o", "r", "d">>],
    [word |-> FALSE, toks |-> <<"d", "u", "k", "e">>],
    [word |-> FALSE, toks |-> <<"e", "m", "o", "r", "y">>],
    [word |-> FALSE, toks |-> <<"v", "a", "n", "d", "e", "r", "b", "i", "l", "t">>],
    [word |-> FALSE, toks |-> <<"m", "o", "u", "n", "t", " ", "s", "i", "n", "a", "i">>],
    [word |-> FALSE, toks |-> <<"n", "y", "u", " ", "l", "a", "n", "g", "o", "n", "e">>],
    [word |-> FALSE, toks |-> <<"u", "c", "s", "f">>],
    [word |-> FALSE, toks |-> <<"u", "c", "l", "a">>],
    [word |-> FALSE, toks |-> <<"u", "p", "e", "n", "n">>],
    [word |-> FALSE, toks |-> <<"p", "e", "n", "n", " ", "m", "e", "d", "i", "c", "i", "n", "e">>],
    [word |-> FALSE, toks |-> <<"c", "o", "l", "u", "m", "b", "i", "a", " ", "u", "n", "i", "v", "e", "r", "s", "i", "t", "y">>],
    [word |-> FALSE, toks |-> <<"w", "e", "i", "l", "l", " ", "c", "o", "r", "n", "e", "l", "l">>],
    [word |-> FALSE, toks |-> <<"h", "a", "r", "v", "a", "r", "d">>],
    [word |-> FALSE, toks |-> <<"y", "a", "l", "e">>],
    [word |-> FALSE, toks |-> <<"n", "o", "r", "t", "h", "w", "e", "s", "t", "e", "r", "n", " ", "m", "e", "m", "o", "r", "i", "a", "l">>],
    [word |-> FALSE, toks |-> <<"o", "h", "i", "o", " ", "s", "t", "a", "t", "e">>],
    [word |-> FALSE, toks |-> <<"m", "i", "c", "h", "i", "g", "a", "n", " ", "m", "e", "d", "i", "c", "i", "n", "e">>],
    [word |-> FALSE, toks |-> <<"u", "t", " ", "s", "o", "u", "t", "h", "w", "e", "s", "t", "e", "r", "n">>],
    [word |-> FALSE, toks |-> <<"b", "a", "y", "l", "o", "r", " ", "c", "o", "l", "l", "e", "g", "e">>],
    [word |-> FALSE, toks |-> <<"f", "r", "e", "d", " ", "h", "u", "t", "c", "h">>],
    [word |-> FALSE, toks |-> <<"c", "i", "t", "y", " ", "o", "f", " ", "h", "o", "p", "e">>],
    [word |-> FALSE, toks |-> <<"r", "o", "s", "w", "e", "l", "l", " ", "p", "a", "r", "k">>],
    [word |-> FALSE, toks |-> <<"m", "o", "f", "f", "i", "t", "t">>],
    [word |-> FALSE, toks |-> <<"f", "o", "x", " ", "c", "h", "a", "s", "e">>],
    [word |-> FALSE, toks |-> <<"h", "u", "n", "t", "s", "m", "a", "n">>],
    [word |-> FALSE, toks |-> <<"w", "i", "n", "s", "h", "i", "p">>],
    [word |-> FALSE, toks |-> <<"a", "b", "r", "a", "m", "s", "o", "n">>],
    [word |-> FALSE, toks |-> <<"s", "i", "t", "e", "m", "a", "n">>],
    [word |-> FALSE, toks |-> <<"l", "i", "n", "e", "b", "e", "r", "g", "e", "r">>],
    [word |-> FALSE, toks |-> <<"n", "a", "t", "i", "o", "n", "a", "l", " ", "c", "a", "n", "c", "e", "r", " ", "i", "n", "s", "t", "i", "t", "u", "t", "e">>],
    [word |-> FALSE, toks |-> <<"n", "a", "t", "i", "o", "n", "a", "l", " ", "i", "n", "s", "t", "i", "t", "u", "t", "e", "s", " ", "o", "f", " ", "h", "e", "a", "l", "t", "h">>],
    [word |-> FALSE, toks |-> <<"n", "i", "h", " ", "c", "l", "i", "n", "i", "c", "a", "l", " ", "c", "e", "n", "t", "e", "r">>],
    [word |-> FALSE, toks |-> <<"c", "a", "n", "c", "e", "r", " ", "c", "e", "n", "t", "e", "r">>],
    [word |-> FALSE, toks |-> <<"c", "a", "n", "c", "e", "r", " ", "i", "n", "s", "t", "i", "t", "u", "t", "e">>],
    [word |-> FALSE, toks |-> <<"c", "a", "n", "c", "e", "r", " ", "h", "o", "s", "p", "i", "t", "a", "l">>],
    [word |-> FALSE, toks |-> <<"r", "e", "s", "e", "a", "r", "c", "h", " ", "h", "o", "s", "p", "i", "t", "a", "l">>],
    [word |-> FALSE, toks |-> <<"r", "e", "s", "e", "a", "r", "c", "h", " ", "i", "n", "s", "t", "i", "t", "u", "t", "e">>],
    [word |-> FALSE, toks |-> <<"r", "e", "s", "e", "a", "r", "c", "h", " ", "c", "e", "n", "t", "e", "r">>],
    [word |-> FALSE, toks |-> <<"c", "h", "i", "l", "d", "r", "e", "n", "any", "s", " ", "h", "o", "s", "p", "i", "t", "a", "l">>],
    [word |-> FALSE, toks |-> <<"v", "a", " ", "m", "e", "d", "i", "c", "a", "l">>],
    [word |-> FALSE, toks |-> <<"v", "e", "t", "e", "r", "a", "n", "s", " ", "a", "f", "f", "a", "i", "r", "s">>],
    [word |-> FALSE, toks |-> <<"h", "o", "s", "p", "i", "t", "a", "l", " ", "o", "f", " ", "t", "h", "e", " ", "u", "n", "i", "v", "e", "r", "s", "i", "t", "y">>]>>

\* The characters \b takes as part of a word, in lower case.
WordChars ==
    {"a", "b", "c", "d", "e", "f", "g", "h", "i", "j", "k", "l", "m", "n", "o", "p", "q", "r", "s", "t", "u", "v", "w", "x", "y", "z", "0", "1", "2", "3", "4", "5", "6", "7", "8", "9", "_"}

\* The alternative matches the lower-cased text s right after its first i
\* characters.
MatchAt(alt, s, i) ==
    LET n == Len(alt.toks)
    IN  /\ i + n <= Len(s)
        /\ \A j \in 1..n :
            \/ alt.toks[j] = s[i + j]
            \/ alt.toks[j] = "any" /\ s[i + j] # "\n"
        /\ alt.word =>
            /\ (s[i + 1] \in WordChars) # (i > 0 /\ s[i] \in WordChars)
            /\ (s[i + n] \in WordChars) #
                  (i + n < Len(s) /\ s[i + n + 1] \in WordChars)

\* Lines 182-183: bool(ACADEMIC_RE.search(facility_name)), re.IGNORECASE
is_academic_facility(facility_name) ==
    \E s \in {Lower(facility_name)} :
        \E k \in 1..Len(ACADEMIC_PATTERNS) :
            \E i \in 0..Len(s) : MatchAt(ACADEMIC_PATTERNS[k], s, i)

DigitValue == "0" :> 0 @@ "1" :> 1 @@ "2" :> 2 @@ "3" :> 3 @@ "4" :> 4 @@ "5" :> 5 @@ "6" :> 6 @@ "7" :> 7 @@ "8" :> 8 @@ "9" :> 9

NoYear == -1        \* parse_year's None

\* Lines 159-164
parse_year(date_str) ==
    IF date_str = <<>> THEN NoYear
    ELSE IF Len(date_str) >= 4 /\ \A j \in 1..4 : date_str[j] \in DOMAIN DigitValue
    THEN 1000 * DigitValue[date_str[1]] + 100 * DigitValue[date_str[2]]
         + 10 * DigitValue[date_str[3]] + DigitValue[date_str[4]]
    ELSE NoYear

RECURSIVE Split(_, _)
\* s.split(sep) for a separator of one character
Split(s, sep) ==
    IF \A j \in 1..Len(s) : s[j] # sep THEN <<s>>
    ELSE LET k == CHOOSE j \in 1..Len(s) :
                    s[j] = sep /\ \A h \in 1..(j - 1) : s[h] # sep
         IN  <<SubSeq(s, 1, k - 1)>> \o Split(SubSeq(s, k + 1, Len(s)), sep)

\* The header fetch_oncology writes (lines 115-117), and the header of a file
\* that also holds the site columns.
ExportHeader == CSV_COLUMNS
SiteHeader == CSV_COLUMNS \o <<"has_us_site", "countries", "facilities">>

\* The columns the load loop reads from a row, in the order of lines 191-195.
ReadColumns ==
    <<"start_date", "has_us_site", "countries", "facilities",
      "lead_sponsor", "lead_sponsor_class">>

\* The row csv.DictReader yields: one cell for each name of the header.
DictRow(header, cells) ==
    [c \in Range(header) |-> IF c \in DOMAIN cells THEN cells[c] ELSE <<>>]

\* The first column of ReadColumns the row does not hold ("" if it holds all).
MissingKey(row) ==
    IF \A j \in 1..Len(ReadColumns) : ReadColumns[j] \in DOMAIN row THEN ""
    ELSE ReadColumns[CHOOSE j \in 1..Len(ReadColumns) :
            /\ ReadColumns[j] \notin DOMAIN row
            /\ \A h \in 1..(j - 1) : ReadColumns[h] \in DOMAIN row]

\* Lines 191-195: the row with its derived fields
Trial(row) ==
    [row |-> row,
     year |-> parse_year(row["start_date"]),
     has_us |-> row["has_us_site"] = <<"T", "r", "u", "e">>,
     countries |-> IF row["countries"] # <<>>
                   THEN Split(row["countries"], "|") ELSE <<>>,
     facilities |-> IF row["facilities"] # <<>>
                    THEN Split(row["facilities"], "|") ELSE <<>>,
     sponsor_tier |-> classify_sponsor(row["lead_sponsor"],
                                       row["lead_sponsor_class"],
                                       LARGE_CAP, MID_MARKET)]

\* Line 290: t["_has_us"] and t["_year"] and 2022 <= t["_year"] <= 2025
InQ3(t) ==
    /\ t.has_us
    /\ t.year # NoYear /\ t.year # 0
    /\ 2022 <= t.year /\ t.year <= 2025

\* ctr[y] += n on a Counter
Add(ctr, y, n) ==
    [x \in DOMAIN ctr \cup {y} |->
        IF x = y THEN (IF y \in DOMAIN ctr THEN ctr[y] ELSE 0) + n ELSE ctr[x]]

\* ctr.get(y, 0)
Count(ctr, y) == IF y \in DOMAIN ctr THEN ctr[y] ELSE 0

\* Variant of Category: a trial with an academic site counts as academic.
CategoryAcademicFirst(acad_count, comm_count) ==
    IF acad_count > 0 THEN "acad_year"
    ELSE IF acad_count = 0 /\ comm_count > 0 THEN "comm_year"
    ELSE "mixed_year"

\* Lines 314-319: the counter a trial with facilities is added to
Category(acad_count, comm_count) ==
    IF acad_count > 0 /\ comm_count = 0 THEN "acad_year"
    ELSE IF acad_count = 0 /\ comm_count > 0 THEN "comm_year"
    ELSE "mixed_year"

MaxTrials == 2      \* rows of the input file
MaxSites == 2       \* facilities in a row's facilities cell

AcademicName == <<"M", "D", " ", "A", "n", "d", "e", "r", "s", "o", "n", " ", "C", "a", "n", "c", "e", "r", " ", "C", "e", "n", "t", "e", "r">>
CommunityName == <<"C", "o", "m", "m", "u", "n", "i", "t", "y", " ", "O", "n", "c", "o", "l", "o", "g", "y", " ", "C", "l", "i", "n", "i", "c">>

\* The facilities cells: up to MaxSites names joined by "|", the academic
\* ones first.
FacilityCells ==
    UNION {{Join(<<"|">>, [j \in 1..m |->
                    IF j <= a THEN AcademicName ELSE CommunityName]) :
                a \in 0..m} : m \in 0..MaxSites}

Cells(start_date, has_us_site, facilities) ==
    [start_date |-> start_date,
     has_us_site |-> has_us_site,
     countries |-> <<"U", "n", "i", "t", "e", "d", " ", "S", "t", "a", "t", "e", "s", "|", "C", "a", "n", "a", "d", "a">>,
     facilities |-> facilities,
     lead_sponsor |-> <<"P", "f", "i", "z", "e", "r">>,
     lead_sponsor_class |-> INDUSTRY,
     phase |-> <<"P", "H", "A", "S", "E", "2">>]

\* The rows of an input file: trials with a US site started in 2023 with
\* every facilities cell; trials with a US site started in 2022 and 2024
\* whose facility names meet the word boundaries and the wildcards of the
\* patterns; and one trial each without a US site, started before 2022, and
\* without a start date.
RowSpace ==
    {Cells(<<"2", "0", "2", "3", "-", "0", "5">>, <<"T", "r", "u", "e">>, f) : f \in FacilityCells}
    \cup {Cells(<<"2", "0", "2", "4", "-", "0", "2", "-", "1", "0">>, <<"T", "r", "u", "e">>,
                <<"U", "n", "i", "v", "e", "r", "s", "a", "l", " ", "C", "l", "i", "n", "i", "c", "|", "U", "n", "i", "v", ".", " ", "H", "o", "s", "p", "i", "t", "a", "l">>),
          Cells(<<"2", "0", "2", "2">>, <<"T", "r", "u", "e">>,
                <<"D", "A", "N", "A", " ", "F", "A", "R", "B", "E", "R", "|", "C", "h", "i", "l", "d", "r", "e", "n", "s", " ", "H", "o", "s", "p", "i", "t", "a", "l">>),
          Cells(<<"2", "0", "2", "3", "-", "0", "5">>, <<"F", "a", "l", "s", "e">>, <<"M", "D", " ", "A", "n", "d", "e", "r", "s", "o", "n", " ", "C", "a", "n", "c", "e", "r", " ", "C", "e", "n", "t", "e", "r">>),
          Cells(<<"2", "0", "1", "9", "-", "0", "1", "-", "0", "1">>, <<"T", "r", "u", "e">>, <<"C", "o", "m", "m", "u", "n", "i", "t", "y", " ", "O", "n", "c", "o", "l", "o", "g", "y", " ", "C", "l", "i", "n", "i", "c">>),
          Cells(<<>>, <<"T", "r", "u", "e">>, <<>>)}

NoCounts ==
    [trials |-> <<>>, us_trials |-> <<>>, i |-> 0,
     acad_year |-> <<>>, comm_year |-> <<>>, mixed_year |-> <<>>,
     no_facility_year |-> <<>>,
     acad_sites_year |-> <<>>, comm_sites_year |-> <<>>,
     key_error |-> ""]

InitAnalysis ==
    /\ prog = "analyze"
    /\ pc = "start"
    /\ input \in [header : {ExportHeader, SiteHeader},
                  rows : UNION {[1..m -> RowSpace] : m \in 0..MaxTrials}]
    /\ result = NoCounts
    /\ FetchIdle

\* Lines 190-196: one turn of the loop over the reader. A column the row
\* does not hold raises KeyError, which nothing catches.
LoadRow ==
    /\ prog = "analyze" /\ pc = "start"
    /\ Len(result.trials) < Len(input.rows)
    /\ LET row == DictRow(input.header, input.rows[Len(result.trials) + 1])
       IN  IF MissingKey(row) # ""
           THEN /\ result' = [result EXCEPT !.key_error = MissingKey(row)]
                /\ pc' = "crashed"
           ELSE /\ result' = [result EXCEPT !.trials = Append(@, Trial(row))]
                /\ pc' = "start"
    /\ UNCHANGED <<prog, input>>
    /\ UNCHANGED fetchVars

\* Line 290, once the reader is exhausted. (The reports Q1 and Q2 of lines
\* 198-284 read trials and change nothing Q3 uses.)
Q3Select ==
    /\ prog = "analyze" /\ pc = "start"
    /\ Len(result.trials) = Len(input.rows)
    /\ result' = [result EXCEPT !.us_trials = SelectSeq(result.trials, InQ3)]
    /\ pc' = "q3"
    /\ UNCHANGED <<prog, input>>
    /\ UNCHANGED fetchVars

\* Lines 301-319: one turn of the loop over us_trials
Q3Step ==
    /\ prog = "analyze" /\ pc = "q3"
    /\ result.i < Len(result.us_trials)
    /\ LET t == result.us_trials[result.i + 1]
           y == t.year
           facilities == t.facilities
       IN  IF facilities = <<>>
           THEN result' = [result EXCEPT
                    !.i = @ + 1,
                    !.no_facility_year = Add(@, y, 1)]
           ELSE \E acad_count \in
                        {Cardinality({k \in 1..Len(facilities) :
                                        is_academic_facility(facilities[k])})} :
                  LET comm_count == Len(facilities) - acad_count
                  IN  result' = [result EXCEPT
                          !.i = @ + 1,
                          !.acad_sites_year = Add(@, y, acad_count),
                          !.comm_sites_year = Add(@, y, comm_count),
                          ![Category(acad_count, comm_count)] = Add(@, y, 1)]
    /\ UNCHANGED <<prog, pc, input>>
    /\ UNCHANGED fetchVars

\* The loop over us_trials is through.
Q3Done ==
    /\ prog = "analyze" /\ pc = "q3"
    /\ result.i = Len(result.us_trials)
    /\ pc' = "done"
    /\ UNCHANGED <<prog, input, result>>
    /\ UNCHANGED fetchVars

NextAnalysis == LoadRow \/ Q3Select \/ Q3Step \/ Q3Done

SpecAnalysis == InitAnalysis /\ [][NextAnalysis]_vars

----------------------------------------------------------------------------
(* Properties of the Q3 aggregation and of the load loop *)

\* The category the site list of a trial determines.
SiteCategory(facilities) ==
    LET n == Len(facilities)
    IN  CHOOSE c \in {"no_facility_year", "acad_year", "comm_year", "mixed_year"} :
            \E a \in {Cardinality({k \in 1..n : is_academic_facility(facilities[k])})} :
                \/ c = "no_facility_year" /\ n = 0
                \/ c = "acad_year" /\ n >= 1 /\ a = n
                \/ c = "comm_year" /\ n >= 1 /\ a = 0
                \/ c = "mixed_year" /\ a >= 1 /\ n - a >= 1

Categories == {"no_facility_year", "acad_year", "comm_year", "mixed_year"}

RECURSIVE Sites(_, _)
\* The number of facilities of the trials of the sequence started in year y.
Sites(ts, y) ==
    IF ts = <<>> THEN 0
    ELSE (IF Head(ts).year = y THEN Len(Head(ts).facilities) ELSE 0)
         + Sites(Tail(ts), y)

C17_ExportFileAnalysable ==
    (prog = "analyze" /\ input.header = ExportHeader) =>
        /\ pc # "crashed" /\ result.key_error = ""
        /\ Len(result.trials) > 0 =>
                Range(ReadColumns) \cup {"phase"} \subseteq Range(CSV_COLUMNS)

====
